---------------------------- MODULE Spec2Model ----------------------------
(***************************************************************************)
(* Hokm card game (kheyre): the rules engine (utils), the room document    *)
(* kept in the remote store and the clients that read, modify and write    *)
(* it (App).                                                               *)
(*                                                                         *)
(* The stored document is db.  Every client u holds a local copy local[u]  *)
(* (gameState / stateRef.current), refreshed by Sync (realtime update or   *)
(* poll).  performTransaction is two steps: the fetch, at which the        *)
(* modifier runs on the stored document, and the write of its result.      *)
(* updateRemoteState writes the local copy merged with a patch.            *)
(*                                                                         *)
(* Seats are numbered from 0 as in the source.  The null player id, the    *)
(* null hokm and an empty seat are the values NullId, NullSuit and Empty.  *)
(* The logs, names and roomId of the document are not modelled.            *)
(***************************************************************************)
EXTENDS Integers, Sequences, FiniteSets, TLC

VARIABLES
    db,          \* the room document in the store
    local,       \* local[u]: client u's copy of the document
    pend,        \* pend[u]: the write of u's transaction that is in flight
    trickTimer,  \* trickTimer[u]: u's trick-resolution timer is armed
    dealTimer,   \* dealTimer[u]: u's pending deal timer (closure)
    hakimTimer,  \* hakimTimer[u]: u's reveal interval or hakim timer (closure)
    inGame,      \* inGame[u]: u is in the room (subscribed to the document)
    now,         \* the clock read by Date.now()
    snaps,       \* presence snapshots delivered so far
    last,        \* the last operation and its outcome (observation only)
    twCards, twHokm, twOut,   \* determineTrickWinner: arguments and result
    rpArgs, rpOut,            \* calculateRoundPoints: arguments and result
    cdIn, cdRnd, cdOut        \* shuffleDeck: the deck, the draws and the result

gameVars == <<db, local, pend, trickTimer, dealTimer, hakimTimer, inGame, now, snaps, last>>
pureVars == <<twCards, twHokm, twOut, rpArgs, rpOut, cdIn, cdRnd, cdOut>>
vars == <<db, local, pend, trickTimer, dealTimer, hakimTimer, inGame, now, snaps, last,
          twCards, twHokm, twOut, rpArgs, rpOut, cdIn, cdRnd, cdOut>>

-----------------------------------------------------------------------------
(* types.ts *)

Suit == {"S", "H", "C", "D"}
NullSuit == "null"

RankTwo == 2
RankAce == 14
Rank == RankTwo..RankAce

NullId == "null"

Card(s, r) == [suit |-> s, rank |-> r]

Empty == [id |-> NullId, hand |-> <<>>, teamId |-> 0, isConnected |-> FALSE]

Player(i, h, t, c) == [id |-> i, hand |-> h, teamId |-> t, isConnected |-> c]

\* mode === "4p" ? 4 : 2
maxPlayers(mode) == IF mode = "4p" THEN 4 ELSE 2

Seats(d) == 0..(maxPlayers(d.mode) - 1)

\* players.findIndex((p) => p && p.id === id); -1 when there is none
findIndex(players, id) ==
    LET hits == {i \in DOMAIN players : players[i] # Empty /\ players[i].id = id}
    IN  IF hits = {} THEN -1
        ELSE CHOOSE i \in hits : \A j \in hits : i <= j

SeatedIds(d) == {d.players[i].id : i \in {j \in DOMAIN d.players : d.players[j] # Empty}}

-----------------------------------------------------------------------------
(* utils.ts *)

SuitOrder == <<"S", "H", "C", "D">>

NumRanks == 13

\* The deck createDeck builds before it shuffles: suit by suit, ranks rising.
orderedDeck ==
    [k \in 1..(Len(SuitOrder) * NumRanks) |->
        Card(SuitOrder[((k - 1) \div NumRanks) + 1], RankTwo + ((k - 1) % NumRanks))]

\* An exchange that writes one of the two positions only.
swapOneWay(d, a, b) == [d EXCEPT ![a] = d[b]]

\* [newDeck[i], newDeck[j]] = [newDeck[j], newDeck[i]]
swap(d, a, b) == [d EXCEPT ![a] = d[b], ![b] = d[a]]

RECURSIVE shuffleLoop(_, _, _)
\* The loop of shuffleDeck at source index i (position i + 1 here); rnd[i] is
\* the index Math.floor(Math.random() * (i + 1)) drawn at that step.
shuffleLoop(d, i, rnd) ==
    IF i <= 0 THEN d
    ELSE shuffleLoop(swap(d, i + 1, rnd[i] + 1), i - 1, rnd)

shuffleDeck(deck, rnd) == shuffleLoop(deck, Len(deck) - 1, rnd)

createDeck(rnd) == shuffleDeck(orderedDeck, rnd)

\* slice(a, b) of the source, on a sequence.
slice(q, a, b) ==
    LET lo == IF a < Len(q) THEN a ELSE Len(q)
        hi == IF b < Len(q) THEN b ELSE Len(q)
    IN  IF hi <= lo THEN <<>> ELSE SubSeq(q, lo + 1, hi)

RECURSIVE TrickLoop(_, _, _, _, _)
\* The loop of determineTrickWinner from index i on; w is the index of the
\* winning entry so far (winnerId and winningCard are cards[w]).
TrickLoop(cards, hokm, starterSuit, i, w) ==
    IF i > Len(cards) THEN cards[w].playerId
    ELSE LET current == cards[i].card
             winningCard == cards[w].card
             isCurrentHokm == current.suit = hokm
             isWinningHokm == winningCard.suit = hokm
             nw == IF isCurrentHokm /\ ~isWinningHokm THEN i
                   ELSE IF isCurrentHokm /\ isWinningHokm
                        THEN (IF current.rank > winningCard.rank THEN i ELSE w)
                   ELSE IF ~isCurrentHokm /\ ~isWinningHokm
                        THEN (IF /\ current.suit = starterSuit
                                 /\ current.suit = winningCard.suit
                                 /\ current.rank > winningCard.rank
                              THEN i ELSE w)
                   ELSE w
         IN  TrickLoop(cards, hokm, starterSuit, i + 1, nw)

RECURSIVE TrickLoopNoFollow(_, _, _, _, _)
\* TrickLoop without the follow-suit test of the third branch.
TrickLoopNoFollow(cards, hokm, starterSuit, i, w) ==
    IF i > Len(cards) THEN cards[w].playerId
    ELSE LET current == cards[i].card
             winningCard == cards[w].card
             isCurrentHokm == current.suit = hokm
             isWinningHokm == winningCard.suit = hokm
             nw == IF isCurrentHokm /\ ~isWinningHokm THEN i
                   ELSE IF isCurrentHokm /\ isWinningHokm
                        THEN (IF current.rank > winningCard.rank THEN i ELSE w)
                   ELSE IF ~isCurrentHokm /\ ~isWinningHokm
                        THEN (IF current.rank > winningCard.rank THEN i ELSE w)
                   ELSE w
         IN  TrickLoopNoFollow(cards, hokm, starterSuit, i + 1, nw)

determineTrickWinnerNoFollow(cards, hokm, starterSuit) ==
    TrickLoopNoFollow(cards, hokm, starterSuit, 2, 1)

determineTrickWinner(cards, hokm, starterSuit) ==
    TrickLoop(cards, hokm, starterSuit, 2, 1)

calculateRoundPointsFlat(winningTeamTricks, losingTeamTricks, isWinnerHakimTeam) ==
    IF losingTeamTricks = 0 THEN 2 ELSE 1

calculateRoundPoints(winningTeamTricks, losingTeamTricks, isWinnerHakimTeam) ==
    IF losingTeamTricks = 0
    THEN (IF ~isWinnerHakimTeam THEN 3 ELSE 2)
    ELSE 1

-----------------------------------------------------------------------------
(* App: the document and what a client derives from it *)

Users == <<"u1", "u2", "u3", "u4">>

UserAt(i) == Users[i + 1]

AllUsers == {Users[i] : i \in 1..Len(Users)}

\* hostId = players.find((p) => p !== null && p.isConnected)?.id
hostId(g) ==
    LET on == {i \in DOMAIN g.players : g.players[i] # Empty /\ g.players[i].isConnected}
    IN  IF on = {} THEN NullId
        ELSE g.players[CHOOSE i \in on : \A j \in on : i <= j].id

isHost(g, u) == hostId(g) = u

TricksToWin == 7
MatchPoints == 7

Commit(d) == [ok |-> TRUE, doc |-> d]
Abort(d) == [ok |-> FALSE, doc |-> d]

NoPend == [op |-> "none"]
NoTimer == [kind |-> "none"]
Idle == [op |-> "other"]

\* The room has no document in the store.
NoRoom == [phase |-> "ABSENT"]

\* performTransaction after the fetch, with the update started whatever the
\* modifier returned.
performTransactionAlways(p, u, op, arg, r) ==
    [p EXCEPT ![u] = [op |-> op, arg |-> arg, doc |-> r.doc]]

\* performTransaction after the fetch: the update is started if the modifier
\* returned a state.
performTransaction(p, u, op, arg, r) ==
    IF r.ok THEN [p EXCEPT ![u] = [op |-> op, arg |-> arg, doc |-> r.doc]]
    ELSE p

Throw(d, e) == [ok |-> FALSE, doc |-> d, error |-> e]

\* The checks handlePlayCard makes on the local copy before it starts the
\* transaction, after the checks of the hand view (canPlay, and the card is
\* one of the hand the view shows).
canPlay(g, u) ==
    /\ g.currentTurnPlayerId = u
    /\ g.phase = "PLAYING"
    /\ Len(g.tableCards) < maxPlayers(g.mode)

InHand(hand, card) == \E k \in 1..Len(hand) : hand[k] = card

hasSuit(hand, s) == \E k \in 1..Len(hand) : hand[k].suit = s

playLocalCheck(g, u, card) ==
    /\ g.currentTurnPlayerId = u
    /\ Len(g.tableCards) < maxPlayers(g.mode)
    /\ findIndex(g.players, u) # -1
    /\ LET player == g.players[findIndex(g.players, u)]
       IN  Len(g.tableCards) > 0 =>
             LET leadSuit == g.tableCards[1].card.suit
             IN  ~(hasSuit(player.hand, leadSuit) /\ card.suit # leadSuit)

\* The modifier of handlePlayCard with its turn check left out.
playModifierNoTurn(roomData, u, card, maxP, t) ==
    IF Len(roomData.tableCards) >= maxP THEN Abort(roomData)
    ELSE IF findIndex(roomData.players, u) = -1 THEN Abort(roomData)
    ELSE LET currentPlayerIndex == findIndex(roomData.players, u)
             currentPlayer == roomData.players[currentPlayerIndex]
             newHand == SelectSeq(currentPlayer.hand, LAMBDA c : c # card)
             nextPlayer == roomData.players[(currentPlayerIndex + 1) % maxP]
         IN  Commit([roomData EXCEPT
                 !.players[currentPlayerIndex].hand = newHand,
                 !.tableCards = Append(@, [playerId |-> u, card |-> card]),
                 !.lastActionTimestamp = t,
                 !.currentTurnPlayerId =
                     IF nextPlayer # Empty THEN nextPlayer.id ELSE NullId])

\* The modifier of handlePlayCard passing the turn to the player itself.
playModifierSameTurn(roomData, u, card, maxP, t) ==
    LET r == playModifierNoTurn(roomData, u, card, maxP, t)
    IN  IF roomData.currentTurnPlayerId # u THEN Abort(roomData)
        ELSE IF r.ok THEN Commit([r.doc EXCEPT !.currentTurnPlayerId = u])
        ELSE r

\* The modifier of handlePlayCard passing the turn two seats on.
playModifierSkipSeat(roomData, u, card, maxP, t) ==
    LET r == playModifierNoTurn(roomData, u, card, maxP, t)
        nextPlayer == roomData.players[(findIndex(roomData.players, u) + 2) % maxP]
    IN  IF roomData.currentTurnPlayerId # u THEN Abort(roomData)
        ELSE IF r.ok THEN Commit([r.doc EXCEPT !.currentTurnPlayerId = nextPlayer.id])
        ELSE r

\* The modifier handlePlayCard hands to performTransaction.
playModifier(roomData, u, card, maxP, t) ==
    IF roomData.currentTurnPlayerId # u THEN Abort(roomData)
    ELSE IF Len(roomData.tableCards) >= maxP THEN Abort(roomData)
    ELSE IF findIndex(roomData.players, u) = -1 THEN Abort(roomData)
    ELSE LET currentPlayerIndex == findIndex(roomData.players, u)
             currentPlayer == roomData.players[currentPlayerIndex]
             newHand == SelectSeq(currentPlayer.hand, LAMBDA c : c # card)
             nextPlayer == roomData.players[(currentPlayerIndex + 1) % maxP]
         IN  Commit([roomData EXCEPT
                 !.players[currentPlayerIndex].hand = newHand,
                 !.tableCards = Append(@, [playerId |-> u, card |-> card]),
                 !.lastActionTimestamp = t,
                 !.currentTurnPlayerId =
                     IF nextPlayer # Empty THEN nextPlayer.id ELSE NullId])

teamOf(players, id) ==
    IF findIndex(players, id) = -1 THEN 0
    ELSE players[findIndex(players, id)].teamId

\* finishTrickRemote's modifier crediting the trick and leaving the cards on
\* the table.
finishWithKeepTable(roomData, winnerId) ==
    LET winnerTeamId == teamOf(roomData.players, winnerId)
    IN  Commit([roomData EXCEPT !.currentRoundTricks[winnerTeamId] = @ + 1,
                                !.lastWinnerId = winnerId,
                                !.currentTurnPlayerId = winnerId])

\* finishTrickRemote's modifier from the point where the trick winner is known.
finishWith(roomData, winnerId) ==
    LET maxP == maxPlayers(roomData.mode)
        winnerTeamId == teamOf(roomData.players, winnerId)
        tricks == [roomData.currentRoundTricks EXCEPT ![winnerTeamId] = @ + 1]
        handOver == tricks[1] >= TricksToWin \/ tricks[2] >= TricksToWin
        handWinnerTeamId == IF tricks[2] >= TricksToWin THEN 2 ELSE 1
        r1 == [roomData EXCEPT !.currentRoundTricks = tricks,
                               !.lastWinnerId = winnerId,
                               !.currentTurnPlayerId = winnerId]
        isHakimTeam == teamOf(roomData.players, roomData.hakimId) = handWinnerTeamId
        losingTeamId == IF handWinnerTeamId = 1 THEN 2 ELSE 1
        losingTricks == tricks[losingTeamId]
        points == calculateRoundPoints(TricksToWin, losingTricks, isHakimTeam)
        scores == [roomData.scores EXCEPT ![handWinnerTeamId] = @ + points]
        currentHakimIdx == findIndex(roomData.players, roomData.hakimId)
        nextIdx == (currentHakimIdx + 1) % maxP
        newHakimId == IF isHakimTeam THEN roomData.hakimId
                      ELSE IF roomData.players[nextIdx] # Empty
                           THEN roomData.players[nextIdx].id ELSE NullId
    IN  IF ~handOver THEN Commit([r1 EXCEPT !.tableCards = <<>>])
        ELSE IF scores[handWinnerTeamId] >= MatchPoints
             THEN Commit([r1 EXCEPT !.scores = scores, !.phase = "MATCH_END"])
        ELSE Commit([r1 EXCEPT !.scores = scores,
                               !.phase = "DEALING_INITIAL",
                               !.deck = <<>>,
                               !.tableCards = <<>>,
                               !.currentRoundTricks = [t \in 1..2 |-> 0],
                               !.hakimId = newHakimId,
                               !.hokm = NullSuit,
                               !.hakimDeterminationCards = <<>>])

\* finishTrickRemote's modifier with the hakim never rotated.
finishModifierKeepHakim(roomData) ==
    IF Len(roomData.tableCards) < maxPlayers(roomData.mode) THEN Abort(roomData)
    ELSE LET cards == roomData.tableCards
             winnerId == determineTrickWinner(cards, roomData.hokm, cards[1].card.suit)
             r == finishWith(roomData, winnerId)
         IN  IF findIndex(roomData.players, winnerId) = -1 THEN Abort(roomData)
             ELSE Commit([r.doc EXCEPT !.hakimId = roomData.hakimId])

\* finishTrickRemote's modifier with the hokm of the hand kept.
finishModifierKeepHokm(roomData) ==
    IF Len(roomData.tableCards) < maxPlayers(roomData.mode) THEN Abort(roomData)
    ELSE LET cards == roomData.tableCards
             winnerId == determineTrickWinner(cards, roomData.hokm, cards[1].card.suit)
             r == finishWith(roomData, winnerId)
         IN  IF findIndex(roomData.players, winnerId) = -1 THEN Abort(roomData)
             ELSE Commit([r.doc EXCEPT !.hokm = roomData.hokm])

\* The modifier finishTrickRemote hands to performTransaction.
finishModifier(roomData) ==
    IF Len(roomData.tableCards) < maxPlayers(roomData.mode) THEN Abort(roomData)
    ELSE LET cards == roomData.tableCards
             winnerId == determineTrickWinner(cards, roomData.hokm, cards[1].card.suit)
         IN  IF findIndex(roomData.players, winnerId) = -1 THEN Abort(roomData)
             ELSE finishWith(roomData, winnerId)

-----------------------------------------------------------------------------
(* App: the operations *)

\* Date.now() values at which cards may still be played.
MaxClock == 6
\* Seated players a presence snapshot may report offline.
MaxOffline == 1
\* Presence snapshots delivered in one run.
MaxSnapshots == 1
\* Outcomes of the random source that createDeck is run on.
NumSeeds == 2

\* The draws of one run of shuffleDeck on 52 cards, one sequence per seed.
Draws ==
    {[i \in 1..(Len(SuitOrder) * NumRanks - 1) |-> (sd * i) % (i + 1)] :
        sd \in 0..(NumSeeds - 1)}

\* The first of the outcomes of the random source that the reveal of the
\* Hakim Determination effect is run on.
RevealSeed == 5

\* The draws of the shuffles the reveal is run on: the first Ace comes up
\* within the first cards.
RevealDraws ==
    {[i \in 1..(Len(SuitOrder) * NumRanks - 1) |-> ((RevealSeed + sd) * i) % (i + 1)] :
        sd \in 0..(NumSeeds - 1)}

InitialDeal == 5
HandSize == 13
HakimExtra == 8
\* Ranks per suit of the cards determineTrickWinner is applied to.
NumPureRanks == 3

\* The Trick Resolution effect arms its timer for this copy of the document.
trickEffectAnyone(g, u) ==
    /\ Len(g.tableCards) = maxPlayers(g.mode)
    /\ g.phase = "PLAYING"

trickEffect(g, u) ==
    /\ Len(g.tableCards) = maxPlayers(g.mode)
    /\ g.phase = "PLAYING"
    /\ isHost(g, u)

\* The Dealing Logic effect runs when phase or isHost changed; in phase
\* DEALING_INITIAL the host with an empty deck and a seated hakim starts
\* the timer of the initial deal.
dealingDeps(old, g, u) ==
    old.phase # g.phase \/ isHost(old, u) # isHost(g, u) \/ old.mode # g.mode

dealsInitial(g, u) ==
    /\ isHost(g, u)
    /\ g.phase = "DEALING_INITIAL"
    /\ Len(g.deck) = 0
    /\ findIndex(g.players, g.hakimId) # -1

\* What the timer callback keeps of the render that started it.
initialDealTimer(g, fullDeck) ==
    [kind |-> "initial",
     players |-> g.players,
     hakimIndex |-> findIndex(g.players, g.hakimId),
     p1Hand |-> slice(fullDeck, 0, InitialDeal),
     remainingDeck |-> slice(fullDeck, InitialDeal, Len(fullDeck))]

\* In phase DEALING_REMAINDER the host starts the timer of the remainder deal
\* unless every seat holds more than five cards.
dealsRemainder(g, u) ==
    /\ isHost(g, u)
    /\ g.phase = "DEALING_REMAINDER"
    /\ ~(\A i \in DOMAIN g.players :
            g.players[i] # Empty /\ Len(g.players[i].hand) > InitialDeal)

remainderDealTimer(g) ==
    [kind |-> "remainder",
     mode |-> g.mode,
     players |-> g.players,
     deck |-> g.deck,
     hakimIndex |-> findIndex(g.players, g.hakimId),
     hakimId |-> g.hakimId]

\* The Hakim Determination effect starts its interval for this copy.
revealsHakim(g, u) ==
    /\ isHost(g, u)
    /\ g.phase = "HAKIM_DETERMINATION"
    /\ Len(g.hakimDeterminationCards) = 0

revealInterval(g, deck) ==
    [kind |-> "interval",
     deck |-> deck,
     index |-> 0,
     tempCards |-> <<>>,
     maxPlayers |-> maxPlayers(g.mode)]

\* A realtime update or a poll replaces u's copy by the stored document; the
\* effects that depend on it run again.  One deal timer and one hakim timer
\* per client are kept: a copy that would start a second one arrives after
\* the first has fired.  The cleanup of the Hakim Determination effect clears
\* its interval, not the timer that names the hakim.
Sync(u) ==
    /\ inGame[u]
    /\ local' = [local EXCEPT ![u] = db]
    /\ trickTimer' = [trickTimer EXCEPT ![u] = trickEffect(db, u)]
    /\ IF dealingDeps(local[u], db, u) /\ dealsInitial(db, u)
       THEN /\ dealTimer[u] = NoTimer
            /\ \E rnd \in Draws :
                  dealTimer' = [dealTimer EXCEPT ![u] = initialDealTimer(db, createDeck(rnd))]
       ELSE IF dealingDeps(local[u], db, u) /\ dealsRemainder(db, u)
            THEN /\ dealTimer[u] = NoTimer
                 /\ dealTimer' = [dealTimer EXCEPT ![u] = remainderDealTimer(db)]
       ELSE UNCHANGED dealTimer
    /\ IF dealingDeps(local[u], db, u)
       THEN IF revealsHakim(db, u)
            THEN /\ hakimTimer[u].kind # "winner"
                 /\ \E rnd \in RevealDraws :
                       hakimTimer' = [hakimTimer EXCEPT
                                         ![u] = revealInterval(db, createDeck(rnd))]
            ELSE hakimTimer' = [hakimTimer EXCEPT
                                   ![u] = IF @.kind = "interval" THEN NoTimer ELSE @]
       ELSE UNCHANGED hakimTimer
    /\ last' = Idle
    /\ UNCHANGED <<db, pend, now, snaps, inGame, pureVars>>

\* The write a deal timer makes when it fires on the copy cur.
dealWrite(cur, c) ==
    LET newPlayers ==
            IF c.players[c.hakimIndex] # Empty
            THEN [c.players EXCEPT ![c.hakimIndex].hand = c.p1Hand]
            ELSE c.players
    IN  [f \in DOMAIN cur |->
            IF f = "deck" THEN c.remainingDeck
            ELSE IF f = "players" THEN newPlayers
            ELSE IF f = "phase" THEN "HAKIM_CHOOSING_SUIT"
            ELSE cur[f]]

\* The timer of the initial deal fires: updateRemoteState with the deal.
DealFire(u) ==
    /\ dealTimer[u].kind = "initial"
    /\ db' = dealWrite(local[u], dealTimer[u])
    /\ dealTimer' = [dealTimer EXCEPT ![u] = NoTimer]
    /\ last' = Idle
    /\ UNCHANGED <<local, pend, trickTimer, now, snaps, hakimTimer, inGame, pureVars>>

\* handlePlayCard: u clicks card in the hand its copy shows; the transaction
\* fetches the stored document and runs the modifier on it.
PlayCard(u, card) ==
    /\ now <= MaxClock
    /\ u \in SeatedIds(local[u])
    /\ pend[u] = NoPend
    /\ canPlay(local[u], u)
    /\ InHand(local[u].players[findIndex(local[u].players, u)].hand, card)
    /\ playLocalCheck(local[u], u, card)
    /\ LET r == playModifier(db, u, card, maxPlayers(local[u].mode), now)
       IN  /\ pend' = performTransaction(pend, u, "play", card, r)
           /\ now' = IF r.ok THEN now + 1 ELSE now
           /\ last' = [op |-> "play", actor |-> u, card |-> card,
                       res |-> IF r.ok THEN "fetched" ELSE "abort"]
    /\ UNCHANGED <<db, local, trickTimer, dealTimer, snaps, hakimTimer, inGame, pureVars>>

\* The trick-resolution timer of u fires: finishTrickRemote.
FinishTrick(u) ==
    /\ trickTimer[u]
    /\ pend[u] = NoPend
    /\ trickTimer' = [trickTimer EXCEPT ![u] = FALSE]
    /\ LET r == finishModifier(db)
       IN  /\ pend' = performTransaction(pend, u, "finish", -1, r)
           /\ last' = [op |-> "finish", actor |-> u,
                       res |-> IF r.ok THEN "fetched" ELSE "abort"]
    /\ UNCHANGED <<db, local, dealTimer, now, snaps, hakimTimer, inGame, pureVars>>

\* Step 3 of performTransaction on a store that keeps the seats taken since
\* the fetch.
WriteMerging(u) ==
    /\ pend[u] # NoPend
    /\ db' = [pend[u].doc EXCEPT
                 !.players = [i \in DOMAIN @ |->
                                 IF @[i] = Empty /\ i \in DOMAIN db.players
                                 THEN db.players[i] ELSE @[i]]]
    /\ pend' = [pend EXCEPT ![u] = NoPend]
    /\ last' = Idle
    /\ inGame' = [inGame EXCEPT ![u] = @ \/ pend[u].op = "join"]
    /\ UNCHANGED <<local, trickTimer, dealTimer, now, snaps, hakimTimer, pureVars>>

\* Step 3 of performTransaction: the update reaches the store; joinRoom
\* then sets inGame.
Write(u) ==
    /\ pend[u] # NoPend
    /\ db' = pend[u].doc
    /\ pend' = [pend EXCEPT ![u] = NoPend]
    /\ last' = Idle
    /\ inGame' = [inGame EXCEPT ![u] = @ \/ pend[u].op = "join"]
    /\ UNCHANGED <<local, trickTimer, dealTimer, now, snaps, hakimTimer, pureVars>>

\* The players array of the presence sync handler correcting nothing but the
\* client's own entry.
updatedPlayersOwnOnly(g, u, onlineIds) ==
    [i \in DOMAIN g.players |->
        IF g.players[i] = Empty THEN Empty
        ELSE IF g.players[i].id = u
             THEN [g.players[i] EXCEPT !.isConnected = TRUE]
        ELSE g.players[i]]

\* The players array the presence sync handler of u computes from its copy.
updatedPlayers(g, u, onlineIds) ==
    [i \in DOMAIN g.players |->
        IF g.players[i] = Empty THEN Empty
        ELSE IF g.players[i].id = u
             THEN [g.players[i] EXCEPT !.isConnected = TRUE]
        ELSE [g.players[i] EXCEPT !.isConnected = (g.players[i].id \in onlineIds)]]

updateNeeded(g, u, onlineIds) ==
    \E i \in DOMAIN g.players :
        /\ g.players[i] # Empty
        /\ g.players[i].id # u
        /\ g.players[i].isConnected # (g.players[i].id \in onlineIds)

\* updateRemoteState(newState): the local copy with the patch over it.
updateRemoteState(g, patch) ==
    [f \in DOMAIN g |-> IF f \in DOMAIN patch THEN patch[f] ELSE g[f]]

\* A presence snapshot reaches u.
PresenceSync(u, onlineIds) ==
    /\ snaps < MaxSnapshots
    /\ u \in SeatedIds(local[u])
    /\ local[u].phase # "LOBBY"
    /\ updateNeeded(local[u], u, onlineIds)
    /\ u \in onlineIds
    /\ db' = updateRemoteState(local[u],
                 [players |-> updatedPlayers(local[u], u, onlineIds)])
    /\ snaps' = snaps + 1
    /\ last' = [op |-> "presence", actor |-> u, onlineIds |-> onlineIds]
    /\ UNCHANGED <<local, pend, trickTimer, dealTimer, now, hakimTimer, inGame, pureVars>>

\* The write of the remainder deal with every hand cut from the top of the
\* deck.
remainderWriteFromTop(cur, c) ==
    LET seated(i) == i \in DOMAIN c.players /\ c.players[i] # Empty
        hakimHand(extra) ==
            IF Len(c.players[c.hakimIndex].hand) = InitialDeal
            THEN c.players[c.hakimIndex].hand \o extra
            ELSE c.players[c.hakimIndex].hand
        otherIndex == IF c.hakimIndex = 0 THEN 1 ELSE 0
        players2 ==
            [i \in DOMAIN c.players |->
                IF i = otherIndex /\ seated(i)
                THEN [c.players[i] EXCEPT
                         !.hand = slice(c.deck, 0, HandSize)]
                ELSE IF i = c.hakimIndex /\ seated(i)
                THEN [c.players[i] EXCEPT !.hand = hakimHand(slice(c.deck, 0, HakimExtra))]
                ELSE c.players[i]]
        offset(i) == (i - c.hakimIndex + 4) % 4
        players4 ==
            [i \in DOMAIN c.players |->
                IF i # c.hakimIndex /\ offset(i) \in 1..3 /\ seated(i)
                THEN [c.players[i] EXCEPT
                         !.hand = slice(c.deck, 0, HandSize)]
                ELSE IF i = c.hakimIndex /\ seated(i)
                THEN [c.players[i] EXCEPT
                         !.hand = hakimHand(slice(c.deck, 3 * HandSize,
                                                  3 * HandSize + HakimExtra))]
                ELSE c.players[i]]
    IN  updateRemoteState(cur,
            [players |-> IF c.mode = "2p" THEN players2 ELSE players4,
             phase |-> "PLAYING",
             currentTurnPlayerId |-> c.hakimId])

\* The write the timer of the remainder deal makes when it fires on cur.
remainderWrite(cur, c) ==
    LET seated(i) == i \in DOMAIN c.players /\ c.players[i] # Empty
        hakimHand(extra) ==
            IF Len(c.players[c.hakimIndex].hand) = InitialDeal
            THEN c.players[c.hakimIndex].hand \o extra
            ELSE c.players[c.hakimIndex].hand
        otherIndex == IF c.hakimIndex = 0 THEN 1 ELSE 0
        players2 ==
            [i \in DOMAIN c.players |->
                IF i = otherIndex /\ seated(i)
                THEN [c.players[i] EXCEPT
                         !.hand = slice(c.deck, HakimExtra, HakimExtra + HandSize)]
                ELSE IF i = c.hakimIndex /\ seated(i)
                THEN [c.players[i] EXCEPT !.hand = hakimHand(slice(c.deck, 0, HakimExtra))]
                ELSE c.players[i]]
        offset(i) == (i - c.hakimIndex + 4) % 4
        players4 ==
            [i \in DOMAIN c.players |->
                IF i # c.hakimIndex /\ offset(i) \in 1..3 /\ seated(i)
                THEN [c.players[i] EXCEPT
                         !.hand = slice(c.deck, (offset(i) - 1) * HandSize,
                                        offset(i) * HandSize)]
                ELSE IF i = c.hakimIndex /\ seated(i)
                THEN [c.players[i] EXCEPT
                         !.hand = hakimHand(slice(c.deck, 3 * HandSize,
                                                  3 * HandSize + HakimExtra))]
                ELSE c.players[i]]
    IN  updateRemoteState(cur,
            [players |-> IF c.mode = "2p" THEN players2 ELSE players4,
             phase |-> "PLAYING",
             currentTurnPlayerId |-> c.hakimId])

\* The timer of the remainder deal fires.
RemainderFire(u) ==
    /\ dealTimer[u].kind = "remainder"
    /\ db' = remainderWrite(local[u], dealTimer[u])
    /\ dealTimer' = [dealTimer EXCEPT ![u] = NoTimer]
    /\ last' = [op |-> "remainder", actor |-> u]
    /\ UNCHANGED <<local, pend, trickTimer, hakimTimer, inGame, now, snaps, pureVars>>

\* handleSetHokm: the hand view shows the suit buttons to the hakim while its
\* copy is in phase HAKIM_CHOOSING_SUIT.
SetHokm(u, suit) ==
    /\ inGame[u]
    /\ local[u].phase = "HAKIM_CHOOSING_SUIT"
    /\ local[u].hakimId = u
    /\ db' = updateRemoteState(local[u], [hokm |-> suit, phase |-> "DEALING_REMAINDER"])
    /\ last' = [op |-> "setHokm", actor |-> u, suit |-> suit]
    /\ UNCHANGED <<local, pend, trickTimer, dealTimer, hakimTimer, inGame, now, snaps,
                   pureVars>>

filledPlayersCount(g) == Cardinality({i \in DOMAIN g.players : g.players[i] # Empty})

\* The timer of the Start Game effect fires on the copy that armed it.
StartGame(u) ==
    /\ inGame[u]
    /\ isHost(local[u], u)
    /\ local[u].phase = "LOBBY"
    /\ filledPlayersCount(local[u]) = maxPlayers(local[u].mode)
    /\ db' = updateRemoteState(local[u], [phase |-> "HAKIM_DETERMINATION"])
    /\ last' = [op |-> "start", actor |-> u]
    /\ UNCHANGED <<local, pend, trickTimer, dealTimer, hakimTimer, inGame, now, snaps,
                   pureVars>>

\* The seat (index - 1) % maxPlayers after index cards, or the one after it.
winningPlayerIndexNext(index, maxP) == index % maxP

\* const winningPlayerIndex = (index - 1) % maxPlayers
winningPlayerIndex(index, maxP) == (index - 1) % maxP

\* The timer started at the Ace, naming nobody.
hakimWinnerTimerNoId(winner) == [kind |-> "winner", winnerId |-> NullId]

\* The timer started at the Ace, which names the hakim when it fires.
hakimWinnerTimer(winner) == [kind |-> "winner", winnerId |-> winner.id]

\* One tick of the interval of the Hakim Determination effect.
HakimTick(u) ==
    /\ hakimTimer[u].kind = "interval"
    /\ IF local[u].phase # "HAKIM_DETERMINATION"
       THEN /\ hakimTimer' = [hakimTimer EXCEPT ![u] = NoTimer]
            /\ UNCHANGED db
       ELSE LET c == hakimTimer[u]
                card == c.deck[c.index + 1]
                index == c.index + 1
                tempCards == Append(c.tempCards, card)
                w == winningPlayerIndex(index, c.maxPlayers)
                winner == IF w \in DOMAIN local[u].players
                          THEN local[u].players[w] ELSE Empty
            IN  /\ db' = updateRemoteState(local[u], [hakimDeterminationCards |-> tempCards])
                /\ hakimTimer' = [hakimTimer EXCEPT ![u] =
                       IF card.rank = RankAce
                       THEN (IF winner # Empty THEN hakimWinnerTimer(winner) ELSE NoTimer)
                       ELSE [c EXCEPT !.index = index, !.tempCards = tempCards]]
    /\ last' = [op |-> "tick", actor |-> u]
    /\ UNCHANGED <<local, pend, trickTimer, dealTimer, inGame, now, snaps, pureVars>>

\* The timer started at the Ace fires.
HakimWinner(u) ==
    /\ hakimTimer[u].kind = "winner"
    /\ db' = updateRemoteState(local[u],
                 [hakimId |-> hakimTimer[u].winnerId,
                  currentTurnPlayerId |-> hakimTimer[u].winnerId,
                  phase |-> "DEALING_INITIAL"])
    /\ hakimTimer' = [hakimTimer EXCEPT ![u] = NoTimer]
    /\ last' = [op |-> "hakim", actor |-> u]
    /\ UNCHANGED <<local, pend, trickTimer, dealTimer, inGame, now, snaps, pureVars>>

\* The modifier of joinRoom seating the caller in seat 0 of a full room.
joinModifierNoFull(roomData, u) ==
    IF findIndex(roomData.players, u) # -1
    THEN Commit([roomData EXCEPT !.players[findIndex(roomData.players, u)].isConnected = TRUE])
    ELSE LET free == {i \in Seats(roomData) : roomData.players[i] = Empty}
             emptySlotIdx == IF free = {} THEN 0
                             ELSE CHOOSE i \in free : \A j \in free : i <= j
         IN  Commit([roomData EXCEPT !.players[emptySlotIdx] =
                        Player(u, <<>>, IF emptySlotIdx % 2 = 0 THEN 1 ELSE 2, TRUE)])

\* The modifier joinRoom hands to performTransaction.
joinModifier(roomData, u) ==
    LET existingIdx == findIndex(roomData.players, u)
    IN  IF existingIdx # -1
        THEN Commit([roomData EXCEPT
                 !.players[existingIdx].isConnected = TRUE,
                 !.hakimDeterminationCards =
                     IF roomData.phase = "HAKIM_DETERMINATION" /\ roomData.hakimId = NullId
                     THEN <<>> ELSE @])
        ELSE LET free == {i \in Seats(roomData) : roomData.players[i] = Empty}
                 emptySlotIdx == IF free = {} THEN -1
                                 ELSE CHOOSE i \in free : \A j \in free : i <= j
                 teamId == IF emptySlotIdx % 2 = 0 THEN 1 ELSE 2
             IN  IF emptySlotIdx = -1 THEN Throw(roomData, "FULL")
                 ELSE Commit([roomData EXCEPT
                         !.players[emptySlotIdx] = Player(u, <<>>, teamId, TRUE)])

\* joinRoom by a client that is not in the room: NotFound when the fetch finds
\* no document, Full when the modifier throws.
JoinRoom(u) ==
    /\ ~inGame[u]
    /\ pend[u] = NoPend
    /\ IF db = NoRoom
       THEN /\ last' = [op |-> "join", actor |-> u, res |-> "NotFound"]
            /\ UNCHANGED pend
       ELSE LET r == joinModifier(db, u)
            IN  /\ pend' = performTransaction(pend, u, "join", -1, r)
                /\ last' = [op |-> "join", actor |-> u,
                            res |-> IF r.ok THEN "fetched" ELSE "Full"]
    /\ UNCHANGED <<db, local, trickTimer, dealTimer, hakimTimer, inGame, now, snaps,
                   pureVars>>

\* The modifier of handleSwitchSeat moving the player with its teamId.
switchModifierKeepTeam(roomData, u, targetIndex) ==
    LET myCurrentIndex == findIndex(roomData.players, u)
    IN  IF myCurrentIndex = -1 THEN Abort(roomData)
        ELSE IF roomData.players[targetIndex] # Empty THEN Abort(roomData)
        ELSE Commit([roomData EXCEPT
                 !.players[targetIndex] = roomData.players[myCurrentIndex],
                 !.players[myCurrentIndex] = Empty])

\* The modifier handleSwitchSeat hands to performTransaction.
switchModifier(roomData, u, targetIndex) ==
    LET myCurrentIndex == findIndex(roomData.players, u)
    IN  IF myCurrentIndex = -1 THEN Abort(roomData)
        ELSE IF roomData.players[targetIndex] # Empty THEN Abort(roomData)
        ELSE Commit([roomData EXCEPT
                 !.players[targetIndex] =
                     [roomData.players[myCurrentIndex] EXCEPT
                         !.teamId = IF targetIndex % 2 = 0 THEN 1 ELSE 2],
                 !.players[myCurrentIndex] = Empty])

\* handleSwitchSeat: the lobby of a four-player room shows the button on the
\* seats that are empty in the client's copy.  The clock moves on with every
\* click.
SwitchSeat(u, targetIndex) ==
    /\ now <= MaxClock
    /\ inGame[u]
    /\ pend[u] = NoPend
    /\ local[u].phase = "LOBBY"
    /\ local[u].mode = "4p"
    /\ targetIndex \in DOMAIN local[u].players
    /\ local[u].players[targetIndex] = Empty
    /\ LET r == switchModifier(db, u, targetIndex)
       IN  /\ pend' = performTransaction(pend, u, "switch", targetIndex, r)
           /\ last' = [op |-> "switch", actor |-> u, target |-> targetIndex,
                       res |-> IF r.ok THEN "fetched" ELSE "abort"]
    /\ now' = now + 1
    /\ UNCHANGED <<db, local, trickTimer, dealTimer, hakimTimer, inGame, snaps, pureVars>>

teamOfSeat(i) == IF i % 2 = 0 THEN 1 ELSE 2

\* The document createRoom inserts, with the seats in seated taken.
LobbyDoc(mode, seated) ==
    [mode |-> mode,
     phase |-> "LOBBY",
     players |-> [i \in 0..(maxPlayers(mode) - 1) |->
                     IF i \in seated THEN Player(UserAt(i), <<>>, teamOfSeat(i), TRUE)
                     ELSE Empty],
     deck |-> <<>>,
     hakimId |-> NullId,
     hokm |-> NullSuit,
     currentTurnPlayerId |-> NullId,
     tableCards |-> <<>>,
     scores |-> [t \in 1..2 |-> 0],
     currentRoundTricks |-> [t \in 1..2 |-> 0],
     hakimDeterminationCards |-> <<>>,
     lastWinnerId |-> NullId,
     lastActionTimestamp |-> 0]

\* The gameState of a client before it has joined a room.
DefaultState == [LobbyDoc("2p", {}) EXCEPT !.players = <<>>]

\* The clone of its copy cleanupAndLeave edits: in the lobby the seat of u is
\* cleared, in every other phase the player is marked disconnected.
leaveCopy(g, u) ==
    LET myIdx == findIndex(g.players, u)
    IN  IF g.phase = "LOBBY"
        THEN [g EXCEPT !.players[myIdx] = Empty]
        ELSE [g EXCEPT !.players[myIdx].isConnected = FALSE]

activePlayersCount(g) ==
    Cardinality({i \in DOMAIN g.players : g.players[i] # Empty /\ g.players[i].isConnected})

\* What cleanupAndLeave sends for the copy g of u: a DELETE when no connected
\* player is left in the edited clone, else a PATCH with the whole clone.
cleanupAndLeave(g, u) ==
    LET currentState == leaveCopy(g, u)
    IN  IF activePlayersCount(currentState) = 0
        THEN [method |-> "DELETE"]
        ELSE [method |-> "PATCH", data |-> currentState]

\* u leaves the room: the exit button, the return to the menu, or the page
\* closing.  The request acts on the stored row if there is one; the client
\* is out of the game and its timers are gone.
Leave(u) ==
    /\ now <= MaxClock
    /\ inGame[u]
    /\ findIndex(local[u].players, u) # -1
    /\ LET req == cleanupAndLeave(local[u], u)
       IN  db' = IF db = NoRoom \/ req.method = "DELETE" THEN NoRoom ELSE req.data
    /\ inGame' = [inGame EXCEPT ![u] = FALSE]
    /\ local' = [local EXCEPT ![u] = DefaultState]
    /\ trickTimer' = [trickTimer EXCEPT ![u] = FALSE]
    /\ dealTimer' = [dealTimer EXCEPT ![u] = NoTimer]
    /\ hakimTimer' = [hakimTimer EXCEPT ![u] = NoTimer]
    /\ last' = [op |-> "leave", actor |-> u]
    /\ now' = now + 1
    /\ UNCHANGED <<pend, snaps, pureVars>>

\* The DELETE event, or a poll that finds no row, reaches u: the room is
\* closed for it.
RoomClosed(u) ==
    /\ inGame[u]
    /\ db = NoRoom
    /\ inGame' = [inGame EXCEPT ![u] = FALSE]
    /\ last' = Idle
    /\ UNCHANGED <<db, local, pend, trickTimer, dealTimer, hakimTimer, now, snaps,
                   pureVars>>

-----------------------------------------------------------------------------
(* Bounds and the states the exploration starts from *)

\* A document in phase PLAYING between two tricks: every seat occupied and
\* connected, the table empty, the turn with the seat that leads.
PlayingDoc(mode, hands, tricks, scores, hakimSeat, hokm, turnSeat) ==
    [mode |-> mode,
     phase |-> "PLAYING",
     players |-> [i \in 0..(maxPlayers(mode) - 1) |->
                     Player(UserAt(i), hands[i + 1], teamOfSeat(i), TRUE)],
     deck |-> <<>>,
     hakimId |-> UserAt(hakimSeat),
     hokm |-> hokm,
     currentTurnPlayerId |-> UserAt(turnSeat),
     tableCards |-> <<>>,
     scores |-> [t \in 1..2 |-> scores[t]],
     currentRoundTricks |-> [t \in 1..2 |-> tricks[t]],
     hakimDeterminationCards |-> <<>>,
     lastWinnerId |-> UserAt(turnSeat),
     lastActionTimestamp |-> 0]

\* Two players, three cards left each after ten tricks.
LateHands2p ==
    << <<Card("S", 14), Card("H", 3), Card("C", 7)>>,
       <<Card("S", 5), Card("H", 9), Card("D", 2)>> >>

\* Two players, seven cards left each after six tricks won by one side.
KotHands2p ==
    << <<Card("S", 14), Card("S", 13), Card("H", 14), Card("H", 13),
         Card("C", 14), Card("C", 13), Card("D", 14)>>,
       <<Card("S", 2), Card("S", 3), Card("H", 2), Card("H", 3),
         Card("C", 2), Card("C", 3), Card("D", 2)>> >>

\* Four players, the last trick of a hand at six tricks each.
LastHands4p ==
    << <<Card("S", 10)>>, <<Card("H", 11)>>, <<Card("S", 12)>>, <<Card("C", 2)>> >>

PlayStarts ==
    {[doc |-> PlayingDoc("2p", LateHands2p, <<5, 5>>, sc, hk, "D", tn), clock |-> 3] :
        sc \in {<<0, 0>>, <<6, 6>>}, hk \in 0..1, tn \in 0..1}
    \cup
    {[doc |-> PlayingDoc("2p", KotHands2p, tr, sc, hk, "D", tn),
      clock |-> 5] :
        tr \in {<<6, 0>>, <<0, 6>>}, sc \in {<<0, 0>>, <<4, 5>>}, hk \in 0..1, tn \in 0..1}
    \cup
    {[doc |-> PlayingDoc("4p", LastHands4p, <<6, 6>>, <<0, 6>>, hk, hm, 0),
      clock |-> 3] :
        hk \in {0, 3}, hm \in {"H", "D"}}

CardsOf(d) ==
    UNION {{d.players[i].hand[k] : k \in 1..Len(d.players[i].hand)} : i \in DOMAIN d.players}

Snapshots(g) ==
    {on \in SUBSET SeatedIds(g) : Cardinality(SeatedIds(g) \ on) <= MaxOffline}

PureIdle ==
    /\ twCards = <<>>
    /\ twHokm = NullSuit
    /\ twOut = NullId
    /\ rpArgs = <<0, 0, FALSE>>
    /\ rpOut = 0
    /\ cdIn = <<>>
    /\ cdRnd = <<>>
    /\ cdOut = <<>>

InitPlay ==
    /\ \E s \in PlayStarts :
          /\ db = s.doc
          /\ now = s.clock
          /\ local = [u \in AllUsers |-> s.doc]
          /\ inGame = [u \in AllUsers |-> u \in SeatedIds(s.doc)]
    /\ pend = [u \in AllUsers |-> NoPend]
    /\ trickTimer = [u \in AllUsers |-> FALSE]
    /\ dealTimer = [u \in AllUsers |-> NoTimer]
    /\ hakimTimer = [u \in AllUsers |-> NoTimer]
    /\ snaps = 0
    /\ last = Idle
    /\ PureIdle

NextPlay ==
    \/ \E u \in AllUsers : Sync(u)
    \/ \E u \in AllUsers : \E card \in CardsOf(local[u]) : PlayCard(u, card)
    \/ \E u \in AllUsers : FinishTrick(u)
    \/ \E u \in AllUsers : Write(u)
    \/ \E u \in AllUsers : DealFire(u)

\* Every player stays online in SpecPlay: no presence snapshot differs from
\* the flags of the document, and the presence handler writes nothing.
SpecPlay == InitPlay /\ [][NextPlay]_vars

\* Two players, two cards left each, one trick short of the hand for seat 0.
RoomHands2p ==
    << <<Card("S", 4), Card("C", 7)>>, <<Card("D", 2), Card("H", 9)>> >>

RoomStarts ==
    {[doc |-> PlayingDoc("2p", RoomHands2p, <<6, 5>>, <<5, 6>>, hk, "D", 0), clock |-> 1] :
        hk \in 0..1}

InitRoom ==
    /\ \E s \in RoomStarts :
          /\ db = s.doc
          /\ now = s.clock
          /\ local = [u \in AllUsers |-> s.doc]
          /\ inGame = [u \in AllUsers |-> u \in SeatedIds(s.doc)]
    /\ pend = [u \in AllUsers |-> NoPend]
    /\ trickTimer = [u \in AllUsers |-> FALSE]
    /\ dealTimer = [u \in AllUsers |-> NoTimer]
    /\ hakimTimer = [u \in AllUsers |-> NoTimer]
    /\ snaps = 0
    /\ last = Idle
    /\ PureIdle

NextRoom ==
    \/ NextPlay
    \/ \E u \in AllUsers : \E on \in Snapshots(local[u]) : PresenceSync(u, on)

\* SpecPlay with players that drop out of the presence channel.
SpecRoom == InitRoom /\ [][NextRoom]_vars

\* Full lobbies of both modes, the clients' copies one join behind.
DealStarts == {LobbyDoc(m, 0..(maxPlayers(m) - 1)) : m \in {"2p", "4p"}}

\* The seat whose client is reloading its page, and so is not subscribed,
\* while the hands are dealt; a two-player room has no such seat.
AwaySeat == 2

InitDeal ==
    /\ db \in DealStarts
    /\ local = [u \in AllUsers |->
                  IF u \in SeatedIds(db) /\ u # UserAt(AwaySeat)
                  THEN LobbyDoc(db.mode, 0..(maxPlayers(db.mode) - 2))
                  ELSE DefaultState]
    /\ inGame = [u \in AllUsers |-> u \in SeatedIds(db) /\ u # UserAt(AwaySeat)]
    /\ pend = [u \in AllUsers |-> NoPend]
    /\ trickTimer = [u \in AllUsers |-> FALSE]
    /\ dealTimer = [u \in AllUsers |-> NoTimer]
    /\ hakimTimer = [u \in AllUsers |-> NoTimer]
    /\ now = 0
    /\ snaps = 0
    /\ last = Idle
    /\ PureIdle

NextDeal ==
    \/ \E u \in AllUsers : Sync(u)
    \/ \E u \in AllUsers : StartGame(u)
    \/ \E u \in AllUsers : HakimTick(u)
    \/ \E u \in AllUsers : HakimWinner(u)
    \/ \E u \in AllUsers : DealFire(u)
    \/ \E u \in AllUsers : \E suit \in Suit : SetHokm(u, suit)
    \/ \E u \in AllUsers : RemainderFire(u)

\* From the full lobby to the first card: the start, the hakim, both deals.
SpecDeal == InitDeal /\ [][NextDeal]_vars

\* Lobbies with seats to take, a full two-player lobby, and no room at all.
LobbyStarts ==
    {LobbyDoc("4p", {0, 1, 2}), LobbyDoc("2p", {0}), LobbyDoc("2p", {0, 1}), NoRoom}

Joined(d) == IF d = NoRoom THEN {} ELSE SeatedIds(d)

InitLobby ==
    /\ db \in LobbyStarts
    /\ local = [u \in AllUsers |-> IF u \in Joined(db) THEN db ELSE DefaultState]
    /\ inGame = [u \in AllUsers |-> u \in Joined(db)]
    /\ pend = [u \in AllUsers |-> NoPend]
    /\ trickTimer = [u \in AllUsers |-> FALSE]
    /\ dealTimer = [u \in AllUsers |-> NoTimer]
    /\ hakimTimer = [u \in AllUsers |-> NoTimer]
    /\ now = 5
    /\ snaps = 0
    /\ last = Idle
    /\ PureIdle

NextLobby ==
    \/ \E u \in AllUsers : Sync(u)
    \/ \E u \in AllUsers : JoinRoom(u)
    \/ \E u \in AllUsers : \E targetIndex \in 0..3 : SwitchSeat(u, targetIndex)
    \/ \E u \in AllUsers : Write(u)
    \/ \E u \in AllUsers : StartGame(u)

\* The lobby: clients join, switch seats, and the host starts the game.
SpecLobby == InitLobby /\ [][NextLobby]_vars

\* The transactions of the lobby and of the play together.
InitTxn == InitPlay \/ InitLobby

NextTxn == NextPlay \/ NextLobby

SpecTxn == InitTxn /\ [][NextTxn]_vars

\* A two-player room in play near the end of a hand, and two-player lobbies
\* with one and with two players.
LeaveStarts ==
    {PlayingDoc("2p", RoomHands2p, <<6, 5>>, <<5, 6>>, 0, "D", 0),
     LobbyDoc("2p", {0, 1}), LobbyDoc("2p", {0})}

LeaveClock == 3

InitLeave ==
    /\ db \in LeaveStarts
    /\ local = [u \in AllUsers |-> IF u \in SeatedIds(db) THEN db ELSE DefaultState]
    /\ inGame = [u \in AllUsers |-> u \in SeatedIds(db)]
    /\ pend = [u \in AllUsers |-> NoPend]
    /\ trickTimer = [u \in AllUsers |-> FALSE]
    /\ dealTimer = [u \in AllUsers |-> NoTimer]
    /\ hakimTimer = [u \in AllUsers |-> NoTimer]
    /\ now = LeaveClock
    /\ snaps = 0
    /\ last = Idle
    /\ PureIdle

\* While the row exists the clients act on it as in the lobby and in play; a
\* client may leave at any time, and a deleted row closes the room for the
\* others.
NextLeave ==
    \/ db # NoRoom /\ \E u \in AllUsers : Sync(u)
    \/ db # NoRoom /\ \E u \in AllUsers : \E card \in CardsOf(local[u]) : PlayCard(u, card)
    \/ db # NoRoom /\ \E u \in AllUsers : FinishTrick(u)
    \/ db # NoRoom /\ \E u \in AllUsers : Write(u)
    \/ db # NoRoom /\ \E u \in AllUsers : StartGame(u)
    \/ db # NoRoom /\ \E u \in AllUsers : \E on \in Snapshots(local[u]) : PresenceSync(u, on)
    \/ \E u \in AllUsers : Leave(u)
    \/ \E u \in AllUsers : RoomClosed(u)

SpecLeave == InitLeave /\ [][NextLeave]_vars

\* The Start Game write has just been stored on a full lobby; the copies of
\* the clients are still the lobby.
RevealStarts ==
    {[LobbyDoc(m, 0..(maxPlayers(m) - 1)) EXCEPT !.phase = "HAKIM_DETERMINATION"] :
        m \in {"2p"}}

InitReveal ==
    /\ db \in RevealStarts
    /\ local = [u \in AllUsers |->
                  IF u \in SeatedIds(db) THEN [db EXCEPT !.phase = "LOBBY"]
                  ELSE DefaultState]
    /\ inGame = [u \in AllUsers |-> u \in SeatedIds(db)]
    /\ pend = [u \in AllUsers |-> NoPend]
    /\ trickTimer = [u \in AllUsers |-> FALSE]
    /\ dealTimer = [u \in AllUsers |-> NoTimer]
    /\ hakimTimer = [u \in AllUsers |-> NoTimer]
    /\ now = 0
    /\ snaps = 0
    /\ last = Idle
    /\ PureIdle

NextReveal ==
    \/ \E u \in AllUsers : Sync(u)
    \/ \E u \in AllUsers : HakimTick(u)
    \/ \E u \in AllUsers : HakimWinner(u)
    \/ \E u \in AllUsers : \E on \in Snapshots(local[u]) : PresenceSync(u, on)

\* The hakim determination with players that drop out of the presence
\* channel: the host can change while a reveal loop runs.
SpecReveal == InitReveal /\ [][NextReveal]_vars

-----------------------------------------------------------------------------
(* The pure functions of utils.ts applied to drawn arguments *)

PureCards == {Card(st, r) : st \in Suit, r \in RankTwo..(RankTwo + NumPureRanks - 1)}

\* Tricks of n distinct cards, the entry at position k played by the k-th
\* user.
PureTricks(n) ==
    {[k \in 1..n |-> [playerId |-> Users[k], card |-> f[k]]] :
        f \in {g \in [1..n -> PureCards] :
                  \A a, b \in 1..n : a # b => g[a] # g[b]}}

GameIdle ==
    /\ db = PlayingDoc("2p", LateHands2p, <<5, 5>>, <<0, 0>>, 0, "D", 0)
    /\ local = [u \in AllUsers |-> db]
    /\ inGame = [u \in AllUsers |-> u \in SeatedIds(db)]
    /\ pend = [u \in AllUsers |-> NoPend]
    /\ trickTimer = [u \in AllUsers |-> FALSE]
    /\ dealTimer = [u \in AllUsers |-> NoTimer]
    /\ hakimTimer = [u \in AllUsers |-> NoTimer]
    /\ now = 0
    /\ snaps = 0
    /\ last = Idle

InitWinner ==
    /\ GameIdle
    /\ \E n \in 1..Len(Users) : twCards \in PureTricks(n)
    /\ twHokm \in Suit
    /\ twOut = NullId
    /\ rpArgs = <<0, 0, FALSE>>
    /\ rpOut = 0
    /\ cdIn = <<>> /\ cdRnd = <<>> /\ cdOut = <<>>

ApplyWinner ==
    /\ twOut = NullId
    /\ twOut' = determineTrickWinner(twCards, twHokm, twCards[1].card.suit)
    /\ UNCHANGED <<gameVars, twCards, twHokm, rpArgs, rpOut, cdIn, cdRnd, cdOut>>

SpecWinner == InitWinner /\ [][ApplyWinner]_vars

InitPoints ==
    /\ GameIdle
    /\ twCards = <<>>
    /\ twHokm = NullSuit
    /\ twOut = NullId
    /\ rpArgs \in (0..HandSize) \X (0..HandSize) \X BOOLEAN
    /\ rpOut = 0
    /\ cdIn = <<>> /\ cdRnd = <<>> /\ cdOut = <<>>

ApplyPoints ==
    /\ rpOut = 0
    /\ rpOut' = calculateRoundPoints(rpArgs[1], rpArgs[2], rpArgs[3])
    /\ UNCHANGED <<gameVars, twCards, twHokm, twOut, rpArgs, cdIn, cdRnd, cdOut>>

SpecPoints == InitPoints /\ [][ApplyPoints]_vars

\* Outcomes of the random source that createDeck is checked on.
NumDeckSeeds == 64

\* The draws of one run of shuffleDeck on 52 cards, one sequence per seed:
\* seed 0 draws index 0 at every step, seed 1 draws index i at step i.
DeckDraws ==
    {[i \in 1..(Len(SuitOrder) * NumRanks - 1) |-> (sd * i) % (i + 1)] :
        sd \in 0..(NumDeckSeeds - 1)}

\* The length of the short deck shuffleDeck is run on with every outcome of
\* its draws.
ShortLen == 5

\* Five cards taken across the ordered deck.
ShortDeck == [k \in 1..ShortLen |-> orderedDeck[(((k - 1) * (NumRanks - 2)) % Len(orderedDeck)) + 1]]

\* Every outcome of the draws on the short deck: at step i an index in 0..i.
ShortDraws == {f \in [1..(ShortLen - 1) -> 0..(ShortLen - 1)] : \A i \in DOMAIN f : f[i] <= i}

InitDeckRun ==
    /\ GameIdle
    /\ twCards = <<>>
    /\ twHokm = NullSuit
    /\ twOut = NullId
    /\ rpArgs = <<0, 0, FALSE>>
    /\ rpOut = 0
    /\ \/ cdIn = <<>> /\ cdRnd \in DeckDraws
       \/ cdIn = ShortDeck /\ cdRnd \in ShortDraws
    /\ cdOut = <<>>

\* createDeck() with the draws cdRnd.
ApplyCreateDeck ==
    /\ cdIn = <<>>
    /\ cdOut = <<>>
    /\ cdOut' = createDeck(cdRnd)
    /\ UNCHANGED <<gameVars, twCards, twHokm, twOut, rpArgs, rpOut, cdIn, cdRnd>>

\* shuffleDeck(cdIn) with the draws cdRnd.
ApplyShuffleDeck ==
    /\ cdIn # <<>>
    /\ cdOut = <<>>
    /\ cdOut' = shuffleDeck(cdIn, cdRnd)
    /\ UNCHANGED <<gameVars, twCards, twHokm, twOut, rpArgs, rpOut, cdIn, cdRnd>>

NextDeckRun == ApplyCreateDeck \/ ApplyShuffleDeck

SpecDeckRun == InitDeckRun /\ [][NextDeckRun]_vars

-----------------------------------------------------------------------------
(* Properties *)

\* The entries of a trick that hold a card of suit st.
OfSuit(cards, st) == {k \in 1..Len(cards) : cards[k].card.suit = st}

\* The player of the highest-ranked card among the entries K of a trick.
TopPlayer(cards, K) ==
    cards[CHOOSE k \in K : \A j \in K : cards[j].card.rank <= cards[k].card.rank].playerId

\* The trick winner by the rule of the game: the highest trump if a trump
\* was played, the highest card of the suit led otherwise.
RuleWinner(cards, hokm) ==
    IF OfSuit(cards, hokm) # {} THEN TopPlayer(cards, OfSuit(cards, hokm))
    ELSE TopPlayer(cards, OfSuit(cards, cards[1].card.suit))

PlayFetched == last.op = "play" /\ last.res = "fetched"
FinishFetched == last.op = "finish" /\ last.res = "fetched"

\* C1: a play that is not aborted never puts on a non-empty table a card off
\* the suit led while the player's hand in the fetched document holds a card
\* of the suit led.
C1_FollowSuitEnforced ==
    [][PlayFetched' =>
        LET u == last'.actor
            hand == db.players[findIndex(db.players, u)].hand
        IN  (Len(db.tableCards) > 0 /\ hasSuit(hand, db.tableCards[1].card.suit))
                => last'.card.suit = db.tableCards[1].card.suit]_vars

\* C2: a playCard transaction whose fetched document names another player as
\* the turn holder aborts: nothing is written and no write is started.
C2_OutOfTurnAborts ==
    [][(last'.op = "play" /\ db.currentTurnPlayerId # last'.actor) =>
        (last'.res = "abort" /\ db' = db /\ pend' = pend)]_vars

\* A play by a client that is not the stored turn holder was aborted while
\* the write of another client's play is in flight.
C2_Witness ==
    /\ last.op = "play"
    /\ last.res = "abort"
    /\ db.currentTurnPlayerId # last.actor
    /\ \E v \in AllUsers : v # last.actor /\ pend[v] # NoPend /\ pend[v].op = "play"

\* C3: a play that is not aborted removes exactly the played card from the
\* player's hand in the fetched document, which holds it, and puts that card
\* on the table.
C3_PlayedCardWasHeld ==
    [][PlayFetched' =>
        LET u == last'.actor
            i == findIndex(db.players, u)
            new == pend'[u].doc
        IN  /\ InHand(db.players[i].hand, last'.card)
            /\ Len(new.players[i].hand) = Len(db.players[i].hand) - 1
            /\ new.tableCards[Len(new.tableCards)].card = last'.card]_vars

\* C4: a play by the occupant of seat i that is not aborted appends
\* {playerId, card} to tableCards, passes the turn to the occupant of seat
\* (i+1) mod playerCount, stamps lastActionTimestamp and leaves the other
\* hands, scores, currentRoundTricks, hakimId, hokm and phase as fetched.
C4_PlayEffect ==
    [][PlayFetched' =>
        LET u == last'.actor
            i == findIndex(db.players, u)
            n == maxPlayers(db.mode)
            new == pend'[u].doc
        IN  /\ new.tableCards = Append(db.tableCards, [playerId |-> u, card |-> last'.card])
            /\ new.currentTurnPlayerId = db.players[(i + 1) % n].id
            /\ new.lastActionTimestamp = now
            /\ \A j \in DOMAIN db.players : j # i => new.players[j] = db.players[j]
            /\ new.scores = db.scores
            /\ new.currentRoundTricks = db.currentRoundTricks
            /\ new.hakimId = db.hakimId
            /\ new.hokm = db.hokm
            /\ new.phase = db.phase]_vars

\* The occupant of the last seat of a four-player table has played and the
\* turn passes to seat 0.
C4_Witness ==
    /\ PlayFetched
    /\ last.actor = UserAt(3)
    /\ pend[last.actor] # NoPend
    /\ pend[last.actor].doc.currentTurnPlayerId = UserAt(0)
    /\ Len(pend[last.actor].doc.tableCards) = 4

\* C6: a resolution of a full trick that does not end the hand adds one trick
\* to the winner's team and none to the other, makes the winner lastWinnerId
\* and turn holder, empties the table and leaves scores, hands, hakimId, hokm
\* and phase as fetched.
C6_ResolveEffect ==
    [][FinishFetched' =>
        LET u == last'.actor
            new == pend'[u].doc
            w == RuleWinner(db.tableCards, db.hokm)
            tw == teamOf(db.players, w)
            ot == IF tw = 1 THEN 2 ELSE 1
        IN  (db.currentRoundTricks[tw] + 1 < TricksToWin /\ db.currentRoundTricks[ot] < TricksToWin)
             => /\ new.currentRoundTricks[tw] = db.currentRoundTricks[tw] + 1
                /\ new.currentRoundTricks[ot] = db.currentRoundTricks[ot]
                /\ new.lastWinnerId = w
                /\ new.currentTurnPlayerId = w
                /\ new.tableCards = <<>>
                /\ new.scores = db.scores
                /\ new.players = db.players
                /\ new.hakimId = db.hakimId
                /\ new.hokm = db.hokm
                /\ new.phase = db.phase]_vars

\* A full trick was resolved and the hand goes on.
C6_Witness ==
    /\ FinishFetched
    /\ pend[last.actor] # NoPend
    /\ pend[last.actor].doc.phase = "PLAYING"
    /\ pend[last.actor].doc.tableCards = <<>>
    /\ pend[last.actor].doc.currentRoundTricks[1] + pend[last.actor].doc.currentRoundTricks[2] = 11

\* C7: a resolution awards points exactly when it brings the winner's team to
\* 7 tricks: 2 to that team if the other team has no trick and the team is
\* the hakim's, 3 if the other team has no trick and it is not, 1 otherwise;
\* the other team's score stays, and no other resolution changes a score.
C7_HandEndsAtSeven ==
    [][FinishFetched' =>
        LET u == last'.actor
            new == pend'[u].doc
            w == RuleWinner(db.tableCards, db.hokm)
            tw == teamOf(db.players, w)
            ot == IF tw = 1 THEN 2 ELSE 1
            pts == IF db.currentRoundTricks[ot] = 0
                   THEN (IF teamOf(db.players, db.hakimId) = tw THEN 2 ELSE 3)
                   ELSE 1
        IN  IF db.currentRoundTricks[tw] + 1 = TricksToWin
            THEN /\ new.scores[tw] = db.scores[tw] + pts
                 /\ new.scores[ot] = db.scores[ot]
            ELSE new.scores = db.scores]_vars

\* C5: on a trick of distinct cards determineTrickWinner returns the player
\* of the highest trump if a trump was played and of the highest card of the
\* suit led otherwise; the winning card is a trump or of the suit led.
C5_TrickWinner ==
    twOut # NullId =>
        /\ twOut = RuleWinner(twCards, twHokm)
        /\ \E k \in 1..Len(twCards) :
              /\ twCards[k].playerId = twOut
              /\ twCards[k].card.suit \in {twHokm, twCards[1].card.suit}

\* A four-card trick led off-trump and won by a trump that was not played last.
C5_Witness ==
    /\ twOut # NullId
    /\ Len(twCards) = 4
    /\ twCards[1].card.suit # twHokm
    /\ OfSuit(twCards, twHokm) # {}
    /\ twOut # twCards[4].playerId
    /\ twOut # twCards[1].playerId

\* C8: calculateRoundPoints is 2 for no losing tricks and the hakim's team
\* winning, 3 for no losing tricks and the other team winning, 1 whenever the
\* losers have a trick, whatever the first argument.
C8_RoundPoints ==
    rpOut # 0 =>
        rpOut = (IF rpArgs[2] > 0 THEN 1 ELSE IF rpArgs[3] THEN 2 ELSE 3)

\* A kot against the hakim's team was scored.
C8_Witness == rpOut = 3 /\ rpArgs[2] = 0 /\ ~rpArgs[3] /\ rpArgs[1] # TricksToWin

\* C9: no step lowers a stored score or the sum of the stored scores.
C9_ScoresNeverDecrease ==
    [][/\ db'.scores[1] >= db.scores[1]
       /\ db'.scores[2] >= db.scores[2]
       /\ db'.scores[1] + db'.scores[2] >= db.scores[1] + db.scores[2]]_vars

\* C10: the stored phase is MATCH_END exactly when a stored score is 7 or more.
C10_MatchEndIffSeven ==
    (db.phase = "MATCH_END") <=>
        (db.scores[1] >= MatchPoints \/ db.scores[2] >= MatchPoints)

\* C11: once the stored phase is MATCH_END no step changes the stored phase,
\* scores, currentRoundTricks or hakimId.
C11_MatchEndTerminal ==
    [][db.phase = "MATCH_END" =>
        /\ db'.phase = db.phase
        /\ db'.scores = db.scores
        /\ db'.currentRoundTricks = db.currentRoundTricks
        /\ db'.hakimId = db.hakimId]_vars

\* The resolution fetched ends the hand of the fetched document for the team
\* of the trick winner and leaves that team short of the match.
HandEndsOnly ==
    LET w == RuleWinner(db.tableCards, db.hokm)
        tw == teamOf(db.players, w)
        ot == IF tw = 1 THEN 2 ELSE 1
        pts == IF db.currentRoundTricks[ot] = 0
               THEN (IF teamOf(db.players, db.hakimId) = tw THEN 2 ELSE 3)
               ELSE 1
    IN  /\ db.currentRoundTricks[tw] + 1 = TricksToWin
        /\ db.currentRoundTricks[ot] < TricksToWin
        /\ db.scores[tw] + pts < MatchPoints

\* C12: a resolution that ends the hand and not the match keeps the hakim if
\* the hakim's team won the hand and makes the occupant of the seat after the
\* hakim's the hakim if it lost.
C12_HakimRotation ==
    [][(FinishFetched' /\ HandEndsOnly) =>
        LET new == pend'[last'.actor].doc
            tw == teamOf(db.players, RuleWinner(db.tableCards, db.hokm))
            i == findIndex(db.players, db.hakimId)
            n == maxPlayers(db.mode)
        IN  new.hakimId = IF teamOf(db.players, db.hakimId) = tw
                          THEN db.hakimId
                          ELSE db.players[(i + 1) % n].id]_vars

\* At a four-player table the hakim in the last seat lost the hand and the
\* occupant of seat 0 becomes hakim.
C12_Witness ==
    /\ FinishFetched
    /\ pend[last.actor] # NoPend
    /\ pend[last.actor].doc.phase = "DEALING_INITIAL"
    /\ db.hakimId = UserAt(3)
    /\ pend[last.actor].doc.hakimId = UserAt(0)

\* C13: a resolution that ends the hand and not the match leaves deck,
\* tableCards and hakimDeterminationCards empty, currentRoundTricks at zero,
\* no hokm and phase DEALING_INITIAL, with the points of the hand in scores.
C13_RoundReset ==
    [][(FinishFetched' /\ HandEndsOnly) =>
        LET new == pend'[last'.actor].doc
            tw == teamOf(db.players, RuleWinner(db.tableCards, db.hokm))
        IN  /\ new.deck = <<>>
            /\ new.tableCards = <<>>
            /\ new.currentRoundTricks = [t \in 1..2 |-> 0]
            /\ new.hokm = NullSuit
            /\ new.hakimDeterminationCards = <<>>
            /\ new.phase = "DEALING_INITIAL"
            /\ new.scores[tw] > db.scores[tw]]_vars

\* A hand won without a trick lost was reset with three points awarded.
C13_Witness ==
    /\ FinishFetched
    /\ pend[last.actor] # NoPend
    /\ pend[last.actor].doc.phase = "DEALING_INITIAL"
    /\ pend[last.actor].doc.currentRoundTricks = [t \in 1..2 |-> 0]
    /\ \E t \in 1..2 : pend[last.actor].doc.scores[t] = db.scores[t] + 3

\* A step on which the timer of the initial deal fires.
InitialDealt == \E u \in AllUsers : dealTimer[u].kind = "initial" /\ dealTimer'[u] = NoTimer

SeqSet(q) == {q[k] : k \in 1..Len(q)}

\* C14: when the initial deal is performed on a stored document in phase
\* DEALING_INITIAL with an empty deck and a seated hakim, afterwards the
\* hakim's hand has exactly 5 cards, the stored deck has exactly 47, the hand
\* and the deck together are the 52 distinct cards of one deck, and the phase
\* is HAKIM_CHOOSING_SUIT.
C14_InitialDeal ==
    [][(/\ InitialDealt
        /\ db.phase = "DEALING_INITIAL"
        /\ Len(db.deck) = 0
        /\ findIndex(db.players, db.hakimId) # -1)
       => LET h == findIndex(db'.players, db'.hakimId)
          IN  /\ h # -1
              /\ Len(db'.players[h].hand) = 5
              /\ Len(db'.deck) = 47
              /\ SeqSet(db'.players[h].hand) \cup SeqSet(db'.deck) = SeqSet(orderedDeck)
              /\ Cardinality(SeqSet(orderedDeck)) = 52
              /\ db'.phase = "HAKIM_CHOOSING_SUIT"]_vars

\* C15: after the remainder deal is written on a stored document in phase
\* DEALING_REMAINDER, every hand has exactly 13 cards, the stored deck is
\* empty, the phase is PLAYING and the turn is the hakim's.
C15_RemainderDeal ==
    [][(last'.op = "remainder" /\ db.phase = "DEALING_REMAINDER")
       => /\ \A i \in DOMAIN db'.players :
                db'.players[i] # Empty /\ Len(db'.players[i].hand) = HandSize
          /\ Len(db'.deck) = 0
          /\ db'.phase = "PLAYING"
          /\ db'.currentTurnPlayerId = db'.hakimId]_vars

C17_SetHokm ==
    [][last'.op = "setHokm"
       => IF last'.actor = db.hakimId /\ db.phase = "HAKIM_CHOOSING_SUIT"
          THEN db' = [db EXCEPT !.hokm = last'.suit, !.phase = "DEALING_REMAINDER"]
          ELSE db' = db]_vars

\* C18: a transaction whose modifier aborts (a card played out of turn or on
\* a full table, a resolution of a table that is not full, a switch to a seat
\* that is taken) starts no update: the stored document is the same before
\* and after it.
C18_AbortWritesNothing ==
    [][(last'.op \in {"play", "finish", "switch"} /\ last'.res = "abort")
       => db' = db /\ pend' = pend]_vars

\* A switch to a seat that is taken in the store has just aborted.
C18_Witness ==
    /\ last.op = "switch"
    /\ last.res = "abort"
    /\ db.players[last.target] # Empty
    /\ pend[last.actor] = NoPend

\* C19: a joinRoom when the room has no document ends in NotFound, and a
\* joinRoom by a client that is not seated when no seat is Empty ends in Full;
\* in both cases nothing is written and the caller is not in the game.
C19_JoinErrors ==
    [][last'.op = "join"
       => LET u == last'.actor
          IN  /\ db = NoRoom
                 => /\ last'.res = "NotFound"
                    /\ db' = db /\ pend'[u] = NoPend /\ ~inGame'[u]
              /\ (/\ db # NoRoom
                  /\ findIndex(db.players, u) = -1
                  /\ \A i \in Seats(db) : db.players[i] # Empty)
                 => /\ last'.res = "Full"
                    /\ db' = db /\ pend'[u] = NoPend /\ ~inGame'[u]]_vars

\* A client that has no seat has just been turned away from a full room.
C19_Witness ==
    /\ last.op = "join"
    /\ last.res = "Full"
    /\ findIndex(db.players, last.actor) = -1
    /\ \A i \in Seats(db) : db.players[i] # Empty
    /\ ~inGame[last.actor]
    /\ pend[last.actor] = NoPend

\* C20: the update of a switchSeat changes the stored document only when the
\* stored phase is LOBBY, the caller is seated and the target seat is Empty:
\* the caller then sits in the target seat with teamId 1 for an even, 2 for an
\* odd index, the former seat is Empty and nothing else changes; otherwise,
\* and when the switch aborts on an occupied seat, the document is unchanged.
C20_SwitchSeat ==
    [][/\ \A u \in AllUsers :
            (pend[u].op = "switch" /\ pend'[u] = NoPend)
            => LET t == pend[u].arg
                   my == findIndex(db.players, u)
               IN  IF db.phase = "LOBBY" /\ my # -1 /\ db.players[t] = Empty
                   THEN db' = [db EXCEPT
                                  !.players[t] = [db.players[my] EXCEPT
                                                     !.teamId = IF t % 2 = 0 THEN 1 ELSE 2],
                                  !.players[my] = Empty]
                   ELSE db' = db
       /\ last'.op = "switch" => db' = db]_vars

\* A step on which the update of a playCard by u reaches the store.
PlayWritten(u) == pend[u].op = "play" /\ pend'[u] = NoPend

\* C21: the stored table never holds more cards than there are players, and
\* no update of a playCard reaches a stored table that is already full.
C21_TableBounded ==
    [][/\ Len(db'.tableCards) <= maxPlayers(db'.mode)
       /\ \A u \in AllUsers :
             PlayWritten(u) => Len(db.tableCards) < maxPlayers(db.mode)]_vars

\* C22: in every stored state the tricks of the two teams add up to at most
\* 13, neither team has more than 7, and both counts are 0 whenever the phase
\* is DEALING_INITIAL.
C22_TricksBounded ==
    /\ db.currentRoundTricks[1] + db.currentRoundTricks[2] <= HandSize
    /\ db.currentRoundTricks[1] <= TricksToWin
    /\ db.currentRoundTricks[2] <= TricksToWin
    /\ db.phase = "DEALING_INITIAL"
       => db.currentRoundTricks[1] = 0 /\ db.currentRoundTricks[2] = 0

HandLen(d, i) == Len(d.players[i].hand)

\* C23: in every stored state every seated hand is empty in the phases
\* LOBBY, HAKIM_DETERMINATION and DEALING_INITIAL; in HAKIM_CHOOSING_SUIT the
\* hakim holds exactly 5 cards and every other seated player none; and a
\* write that moves the phase to PLAYING leaves every seated player with 13.
C23_HandSizes ==
    [][LET seated == {i \in DOMAIN db'.players : db'.players[i] # Empty}
       IN  /\ db'.phase \in {"LOBBY", "HAKIM_DETERMINATION", "DEALING_INITIAL"}
              => \A i \in seated : HandLen(db', i) = 0
           /\ db'.phase = "HAKIM_CHOOSING_SUIT"
              => \A i \in seated :
                    HandLen(db', i) = IF db'.players[i].id = db'.hakimId
                                      THEN InitialDeal ELSE 0
           /\ (db.phase # "PLAYING" /\ db'.phase = "PLAYING")
              => \A i \in seated : HandLen(db', i) = HandSize]_vars

C28_PresenceReconcile ==
    [][last'.op = "presence"
       => LET u == last'.actor
              on == last'.onlineIds
          IN  /\ u \in on
              /\ \A i \in DOMAIN db'.players :
                    db'.players[i] # Empty
                    => db'.players[i].isConnected
                         = (db'.players[i].id = u \/ db'.players[i].id \in on)]_vars

\* A corrective write has marked a player that is missing from the snapshot
\* disconnected.
C28_Witness ==
    /\ last.op = "presence"
    /\ \E i \in DOMAIN db.players :
          db.players[i] # Empty /\ db.players[i].id # last.actor
          /\ ~db.players[i].isConnected /\ db.players[i].id \notin last.onlineIds

\* The number of positions of the sequence q that hold c.
Count(q, c) == Cardinality({k \in 1..Len(q) : q[k] = c})

\* C29: whatever the draws, createDeck returns the 52 distinct (suit, rank)
\* pairs, 13 of each suit with the ranks 2..14, each once; and shuffleDeck
\* returns a deck with the cards it was given, each as often as before.
C29_DeckPermutation ==
    cdOut # <<>>
    => IF cdIn = <<>>
       THEN /\ Len(cdOut) = Cardinality(Suit) * NumRanks
            /\ \A st \in Suit : \A r \in Rank : Count(cdOut, Card(st, r)) = 1
            /\ \A st \in Suit :
                  Cardinality({k \in 1..Len(cdOut) : cdOut[k].suit = st}) = NumRanks
       ELSE /\ Len(cdOut) = Len(cdIn)
            /\ \A c \in SeqSet(cdIn) \cup SeqSet(cdOut) : Count(cdOut, c) = Count(cdIn, c)

\* createDeck has returned a deck that differs from the ordered one at both
\* ends.
C29_Witness ==
    /\ cdIn = <<>>
    /\ cdOut # <<>>
    /\ cdOut[1] # orderedDeck[1]
    /\ cdOut[Len(cdOut)] # orderedDeck[Len(orderedDeck)]

\* The update of a resolution by u reaches the store.
FinishWritten(u) == pend[u].op = "finish" /\ pend'[u] = NoPend

\* C30: a trick is resolved once: the update of a resolution that reaches a
\* stored document with nothing left to resolve (the table is not full, or
\* the trick on it has already ended the match) leaves currentRoundTricks,
\* scores, hakimId and phase as they are.
C30_ResolvedOnce ==
    [][\A u \in AllUsers :
          (/\ FinishWritten(u)
           /\ \/ Len(db.tableCards) # maxPlayers(db.mode)
              \/ db.phase # "PLAYING")
          => /\ db'.currentRoundTricks = db.currentRoundTricks
             /\ db'.scores = db.scores
             /\ db'.hakimId = db.hakimId
             /\ db'.phase = db.phase]_vars

\* The step is cleanupAndLeave by u, who has a seat in the stored document.
Leaves(u) ==
    /\ last'.op = "leave" /\ last'.actor = u
    /\ db # NoRoom
    /\ u \in SeatedIds(db)

\* C26: a leave while the stored phase is LOBBY makes the leaver's seat Empty
\* (or removes the room with its last occupant); in every other phase the
\* seat keeps the same player, hand and teamId, with only isConnected set to
\* false.
C26_LeaveByPhase ==
    [][\A u \in AllUsers :
          Leaves(u)
          => LET i == findIndex(db.players, u)
             IN  IF db.phase = "LOBBY"
                 THEN db' = NoRoom \/ db'.players[i] = Empty
                 ELSE /\ db' # NoRoom
                      /\ db'.players[i] = [db.players[i] EXCEPT !.isConnected = FALSE]]_vars

\* C27: a leave deletes the room when it empties the last occupied seat in
\* the phase LOBBY; a leave in any other phase, and a leave that leaves
\* another occupant seated, does not delete it.
C27_RoomLifecycle ==
    [][\A u \in AllUsers :
          Leaves(u)
          => /\ (db.phase = "LOBBY" /\ SeatedIds(db) = {u}) => db' = NoRoom
             /\ db.phase # "LOBBY" => db' # NoRoom
             /\ SeatedIds(db) # {u} => db' # NoRoom]_vars

\* The hands of the document d, seat by seat.
Hands(d) == [i \in DOMAIN d.players |-> d.players[i].hand]

\* Every seat of d holds more than the five cards of the initial deal.
AllDealt(d) ==
    \A i \in DOMAIN d.players : d.players[i] # Empty /\ Len(d.players[i].hand) > InitialDeal

\* C31: a deal write that reaches a stored document whose deal has already
\* been made (for the initial deal the stored deck is not empty, for the
\* remainder deal every stored hand exceeds five cards) leaves the stored
\* hands, deck, hokm and phase as they are.
C31_DealIdempotent ==
    [][((InitialDealt /\ Len(db.deck) > 0) \/ (last'.op = "remainder" /\ AllDealt(db)))
       => /\ Hands(db') = Hands(db)
          /\ db'.deck = db.deck
          /\ db'.hokm = db.hokm
          /\ db'.phase = db.phase]_vars

\* C32: the update of a transaction replaces the stored document by the
\* modifier's result on the document fetched earlier, whatever has been
\* stored since; so of two joins that fetch the same Empty seat the store
\* keeps only the later writer's player.
C32_LastWriterWins ==
    [][\A u \in AllUsers :
          (pend[u] # NoPend /\ pend'[u] = NoPend) => db' = pend[u].doc]_vars

\* Two clients have joined the two-player room with one free seat, neither
\* was turned away, and the store seats only one of them.
C32_Witness ==
    \E u, v \in AllUsers \ {UserAt(0), UserAt(1)} :
        /\ u # v
        /\ db # NoRoom /\ db.mode = "2p"
        /\ inGame[u] /\ inGame[v]
        /\ pend[u] = NoPend /\ pend[v] = NoPend
        /\ v \in SeatedIds(db)
        /\ u \notin SeatedIds(db)

\* The players of d with the connectivity flags blanked.
Unflagged(d) ==
    [i \in DOMAIN d.players |->
        IF d.players[i] = Empty THEN Empty
        ELSE [d.players[i] EXCEPT !.isConnected = TRUE]]

\* C33: a corrective write of the presence handler changes nothing in the
\* stored document but isConnected flags: every other field, and every
\* player's id, hand and teamId, is as it was before the write.
C33_PresenceFrame ==
    [][last'.op = "presence"
       => /\ \A f \in DOMAIN db \ {"players"} : db'[f] = db[f]
          /\ Unflagged(db') = Unflagged(db)]_vars

\* C34: once the stored phase has left HAKIM_DETERMINATION, no tick of a
\* reveal loop and no timer started by one changes hakimDeterminationCards,
\* hakimId, currentTurnPlayerId or phase of the stored document.
C34_RevealCancelled ==
    [][(last'.op \in {"tick", "hakim"} /\ db.phase # "HAKIM_DETERMINATION")
       => /\ db'.hakimDeterminationCards = db.hakimDeterminationCards
          /\ db'.hakimId = db.hakimId
          /\ db'.currentTurnPlayerId = db.currentTurnPlayerId
          /\ db'.phase = db.phase]_vars

\* u sits in the first seat, in seat order, whose occupant is connected in g.
FirstConnected(g, u) ==
    \E i \in DOMAIN g.players :
        /\ g.players[i] # Empty /\ g.players[i].id = u /\ g.players[i].isConnected
        /\ \A j \in DOMAIN g.players :
              j < i => (g.players[j] = Empty \/ ~g.players[j].isConnected)

\* C35: a client starts a timed transition (the start of the game, a reveal
\* loop, a deal, the resolution of a trick) only when it sits in the first
\* connected seat of the copy it holds, and no document, stored or held, has
\* two such clients.
C35_HostOnly ==
    [][/\ \A u \in AllUsers :
             /\ (trickTimer'[u] /\ ~trickTimer[u]) => FirstConnected(local'[u], u)
             /\ (dealTimer'[u] # NoTimer /\ dealTimer[u] = NoTimer)
                => FirstConnected(local'[u], u)
             /\ (hakimTimer'[u].kind = "interval" /\ hakimTimer[u].kind # "interval")
                => FirstConnected(local'[u], u)
             /\ (last'.op \in {"start", "finish", "tick"} /\ last'.actor = u)
                => FirstConnected(local[u], u)
       /\ \A g \in {db'} \cup {local'[v] : v \in AllUsers} :
             g # NoRoom
             => Cardinality({u \in AllUsers : FirstConnected(g, u)}) <= 1]_vars

\* The player of the second seat has started the resolution of a trick: the
\* first seat is disconnected in its copy.
C35_Witness ==
    /\ trickTimer[UserAt(1)]
    /\ FirstConnected(local[UserAt(1)], UserAt(1))
    /\ ~local[UserAt(1)].players[0].isConnected

\* No card of d is twice in the hands and on the table taken together.
NoCardTwice(d) ==
    LET table == {d.tableCards[k].card : k \in 1..Len(d.tableCards)}
        held(i) == SeqSet(d.players[i].hand)
    IN  /\ Cardinality(table) = Len(d.tableCards)
        /\ \A i \in DOMAIN d.players :
              /\ Cardinality(held(i)) = Len(d.players[i].hand)
              /\ held(i) \cap table = {}
              /\ \A j \in DOMAIN d.players : i # j => held(i) \cap held(j) = {}

FullTable(d) == \A i \in DOMAIN d.players : d.players[i] # Empty

\* C37: the stored phase goes from LOBBY to HAKIM_DETERMINATION only from a
\* stored document with every seat occupied, and no stored document in a
\* phase other than LOBBY has an Empty seat.
C37_StartsFull ==
    [][/\ (db # NoRoom /\ db' # NoRoom
           /\ db.phase = "LOBBY" /\ db'.phase = "HAKIM_DETERMINATION")
          => FullTable(db)
       /\ (db' # NoRoom /\ db'.phase # "LOBBY") => FullTable(db')]_vars

\* C38: in every stored state a seated player's teamId is 1 on an even seat
\* and 2 on an odd seat.
C38_TeamBySeat ==
    db # NoRoom
    => \A i \in DOMAIN db.players :
          db.players[i] # Empty => db.players[i].teamId = (IF i % 2 = 0 THEN 1 ELSE 2)

\* A player who had an even seat of the four-player lobby sits in seat 3.
C38_Witness ==
    /\ db # NoRoom
    /\ db.mode = "4p"
    /\ db.players[3] # Empty
    /\ db.players[3].id \in {UserAt(0), UserAt(2)}
    /\ db.players[3].teamId = 2

PhaseEdges ==
    { <<"LOBBY", "HAKIM_DETERMINATION">>,
      <<"HAKIM_DETERMINATION", "DEALING_INITIAL">>,
      <<"DEALING_INITIAL", "HAKIM_CHOOSING_SUIT">>,
      <<"HAKIM_CHOOSING_SUIT", "DEALING_REMAINDER">>,
      <<"DEALING_REMAINDER", "PLAYING">>,
      <<"PLAYING", "DEALING_INITIAL">>,
      <<"PLAYING", "MATCH_END">> }

\* C39: every step that changes the stored phase follows one of the edges
\* LOBBY -> HAKIM_DETERMINATION -> DEALING_INITIAL -> HAKIM_CHOOSING_SUIT ->
\* DEALING_REMAINDER -> PLAYING -> {DEALING_INITIAL, MATCH_END}, and the
\* stored phase is never ROUND_END.
C39_PhaseEdges ==
    [][(db # NoRoom /\ db' # NoRoom)
       => /\ db'.phase # "ROUND_END"
          /\ db'.phase # db.phase => <<db.phase, db'.phase>> \in PhaseEdges]_vars

\* C40: a playCard commits only during play: its modifier commits only on a
\* fetched document whose phase is PLAYING, and its update changes the stored
\* document only when the stored phase is PLAYING.
C40_PlayOnlyInPlaying ==
    [][/\ (last'.op = "play" /\ last'.res = "fetched") => db.phase = "PLAYING"
       /\ \A u \in AllUsers :
             (PlayWritten(u) /\ db' # db) => db.phase = "PLAYING"]_vars

=============================================================================
